---- MODULE Spec2Model ----
(***************************************************************************)
(* Statutory late-payment interest calculator (rent_calc.py).              *)
(*                                                                         *)
(* Units of the model                                                      *)
(*   dates         day numbers 0..MaxDate (a window of the calendar);      *)
(*                 datetime.today() is read as a day of the window         *)
(*   date strings  <<"iso", d>> is the text 'YYYY-MM-DD' of day d,         *)
(*                 <<"bad", 0>> a text strptime rejects                    *)
(*   money         invoice / payment amounts in whole zl                   *)
(*   stored rate   tenths of a percent (70 is 7.0)                         *)
(*   used rate     thousandths of a percent (7000 is 7.0, 250 is 0.25)     *)
(*   interest      grosze (1/100 zl), i.e. the value of round(x, 2)        *)
(* Floats are modelled by exact rationals, round() as round-half-even.     *)
(***************************************************************************)
EXTENDS Integers, Sequences, FiniteSets, TLC

\* ------------------------------------------------------------------ bounds
MaxDate == 3
MaxEditDate == 2
MaxPayments == 2
MaxRates == 2
MaxLen == 3

Dates == 0..MaxDate
EditDates == 0..MaxEditDate

\* ------------------------------------------------------- program constants
NormalizeAbove == 20
DaysPerYear == 365

StoredPerPercent == 10
UsedPerPercent == 1000

\* ------------------------------------------------------------------- state
VARIABLES
    interest_rates,   \* st.session_state['interest_rates']: list of (start text, stop text, rate)
    pc,               \* position of the running call: "idle", "loop", "done", "raised"
    fn,               \* entry point of the call: "none", "detailed", "total"
    amount,           \* arguments of the call ...
    due_date,
    payments,         \* ... the caller's payment list
    stop,
    payments_sorted,  \* locals of detailed_interest_with_payments
    rates,            \* local interest_rates (the list get_interest_rates returned)
    principal,
    seg_start,
    k,                \* index of pay in payments_sorted (1-based)
    rows,
    total,            \* value returned by calculate_total_interest, NoTotal if none
    table_reads,      \* number of get_interest_rates() calls made by the call
    read_table,       \* the stored table as it was when the call read it
    called_with,      \* the invoice data as the caller held them when it called
    arg_rates,        \* argument of a direct validate_interest_rate_ranges call
    outcome           \* its outcome: "none" (not called), "ok", or the ValueError raised

vars == <<interest_rates, pc, fn, amount, due_date, payments, stop,
          payments_sorted, rates, principal, seg_start, k, rows, total,
          table_reads, read_table, called_with, arg_rates, outcome>>

callVars == <<pc, fn, amount, due_date, payments, stop, payments_sorted, rates,
              principal, seg_start, k, rows, total, table_reads, read_table,
              called_with>>

NoTotal == -1

\* no call under way: nothing was handed over
NoArguments == [amount |-> 0, due_date |-> 0, payments |-> <<>>]

Min(a, b) == IF a < b THEN a ELSE b
Max(a, b) == IF a > b THEN a ELSE b

\* ------------------------------------------------------------ data classes
Payment(d, a) == [date |-> d, amount |-> a]

\* ------------------------------------------------------------- date texts
strftime(d) == <<"iso", d>>

ParsesAsDate(text) == text[1] = "iso"

parse_date(text) == text[2]

BadText == <<"bad", 0>>

\* float(new_rate) of the text of a number / of a text that is no number
RateText(r) == <<"num", r>>

ParsesAsFloat(text) == text[1] = "num"

float(text) == text[2]

\* ----------------------------------------------------------- default table
\* A window of the default schedule: contiguous intervals, the last one
\* reaching to the end of the calendar (2100-01-01 in the source).
DEFAULT_INTEREST_RATES ==
    << <<0, 1, 70>>, <<2, MaxDate, 65>> >>

InitialTable ==
    [i \in 1..Len(DEFAULT_INTEREST_RATES) |->
        <<strftime(DEFAULT_INTEREST_RATES[i][1]),
          strftime(DEFAULT_INTEREST_RATES[i][2]),
          DEFAULT_INTEREST_RATES[i][3]>>]

\* ------------------------------------------------------------------ sorted
\* Python's sorted() is stable: an element goes after every element with a
\* smaller key and after the earlier elements with the same key.

\* sorted(payments, key=lambda p: p.date)
SortedByDate(ps) ==
    LET n == Len(ps)
        place(i) == Cardinality({j \in 1..n : \/ ps[j].date < ps[i].date
                                              \/ ps[j].date = ps[i].date /\ j <= i})
    IN  [r \in 1..n |-> ps[CHOOSE i \in 1..n : place(i) = r]]

\* sorted(rates, key=lambda r: r[0])
SortedByStart(rs) ==
    LET n == Len(rs)
        place(i) == Cardinality({j \in 1..n : \/ rs[j][1] < rs[i][1]
                                              \/ rs[j][1] = rs[i][1] /\ j <= i})
    IN  [r \in 1..n |-> rs[CHOOSE i \in 1..n : place(i) = r]]

\* ---------------------------------------------------------------- validate
RECURSIVE ValidateFrom(_, _)
ValidateFrom(rates_sorted, i) ==
    IF i > Len(rates_sorted) THEN "ok"
    ELSE IF rates_sorted[i][1] > rates_sorted[i][2] THEN "reversed"
    ELSE IF i > 1 /\ rates_sorted[i][1] <= rates_sorted[i - 1][2] THEN "overlap"
    ELSE IF i > 1 /\ rates_sorted[i][1] - rates_sorted[i - 1][2] > 1 THEN "gap"
    ELSE ValidateFrom(rates_sorted, i + 1)

\* the walk without the sort: the list is taken in the caller's order
validate_in_given_order(rs) == ValidateFrom(rs, 1)

\* "ok" when it returns, else the kind of ValueError it raises
validate_interest_rate_ranges(rs) == ValidateFrom(SortedByStart(rs), 1)

\* ------------------------------------------------------ get_interest_rates
\* the conversion with ">= 20" for "> 20"
Normalize_from_20(rate) ==
    IF rate >= NormalizeAbove * StoredPerPercent
    THEN rate
    ELSE rate * (UsedPerPercent \div StoredPerPercent)

\* float(rate) / 100 if float(rate) > 20 else float(rate)
Normalize(rate) ==
    IF rate > NormalizeAbove * StoredPerPercent
    THEN rate
    ELSE rate * (UsedPerPercent \div StoredPerPercent)

ParsedRates(table) ==
    [i \in 1..Len(table) |->
        <<parse_date(table[i][1]), parse_date(table[i][2]), Normalize(table[i][3])>>]

\* get_interest_rates without its validate call
ReadOutcome_unvalidated(table) == "ok"

\* the outcome of the validate call inside get_interest_rates
ReadOutcome(table) == validate_interest_rate_ranges(ParsedRates(table))

\* the list get_interest_rates returns when validation passes
get_interest_rates(table) == SortedByStart(ParsedRates(table))

\* ------------------------------------------------------------------- round
\* round(num / den, 0) with ties to the even neighbour, as Python's round()
RoundHalfEven(num, den) ==
    LET q == num \div den
        r == num % den
    IN  IF 2 * r < den THEN q
        ELSE IF 2 * r > den THEN q + 1
        ELSE IF q % 2 = 0 THEN q ELSE q + 1

\* round(principal * rate / 100 * days / 365, 2), in grosze: the percent's
\* 1/100 and the 100 grosze of a zl cancel
Interest(princ, rate, days) ==
    RoundHalfEven(princ * rate * days, UsedPerPercent * DaysPerYear)

\* ------------------------------------------ detailed_interest_with_payments
\* the payments taken in the caller's order, the sort left out
AugmentedPayments_unsorted(ps, cutoff) == Append(ps, Payment(cutoff, 0))

\* payments_sorted = sorted(payments, ...); payments_sorted.append(Payment(stop, 0.0))
AugmentedPayments(ps, cutoff) == Append(SortedByDate(ps), Payment(cutoff, 0))

\* while rate_idx < len(interest_rates) and interest_rates[rate_idx][1] < seg_start
RECURSIVE SkipRates(_, _, _)
SkipRates(rs, rate_idx, start) ==
    IF rate_idx <= Len(rs) /\ rs[rate_idx][2] < start
    THEN SkipRates(rs, rate_idx + 1, start)
    ELSE rate_idx

\* period_from = rate_start, the segment's start forgotten
PeriodFrom_rate_start(rate_start, start) == rate_start

PeriodFrom(rate_start, start) == Max(rate_start, start)

\* period_to = seg_end, the rate interval's end forgotten
PeriodTo_seg_end(rate_end, seg_end) == seg_end

PeriodTo(rate_end, seg_end) == Min(rate_end, seg_end)

Row(period_from, period_to, rate, days, princ) ==
    [okres_od |-> period_from, okres_do |-> period_to, stawka |-> rate,
     dni |-> days, kwota |-> princ, odsetki |-> Interest(princ, rate, days)]

\* while j < len(interest_rates): ... the rows one segment appends
RECURSIVE SplitSegment(_, _, _, _, _)
SplitSegment(rs, j, start, seg_end, princ) ==
    IF j > Len(rs) THEN <<>>
    ELSE IF rs[j][1] > seg_end THEN <<>>
    ELSE LET period_from == PeriodFrom(rs[j][1], start)
             period_to == PeriodTo(rs[j][2], seg_end)
             days == (period_to - period_from) + 1
             rest == SplitSegment(rs, j + 1, start, seg_end, princ)
         IN  IF days > 0
             THEN <<Row(period_from, period_to, rs[j][3], days, princ)>> \o rest
             ELSE rest

SegEnd(pay_date, cutoff) == Min(pay_date, cutoff)

\* if seg_start > seg_end: seg_start = seg_end
ClampStart(start, seg_end) == IF start > seg_end THEN seg_end ELSE start

\* principal = principal - pay.amount, without the floor
NextPrincipal_unfloored(princ, pay_amount) == princ - pay_amount

\* principal = max(principal - pay.amount, 0)
NextPrincipal(princ, pay_amount) == Max(princ - pay_amount, 0)

\* one pass of "for pay in payments_sorted" on the locals loc
ForBody(loc, pay, cutoff, rs) ==
    LET seg_end == SegEnd(pay.date, cutoff)
        start == ClampStart(loc.seg_start, seg_end)
        rate_idx == SkipRates(rs, 1, start)
    IN  [rows |-> loc.rows \o SplitSegment(rs, rate_idx, start, seg_end, loc.principal),
         principal |-> NextPrincipal(loc.principal, pay.amount),
         seg_start |-> pay.date + 1]

\* the whole for loop from payments_sorted[i] on, with its break
RECURSIVE ForLoop(_, _, _, _, _)
ForLoop(loc, ps, i, cutoff, rs) ==
    IF i > Len(ps) THEN loc
    ELSE LET after == ForBody(loc, ps[i], cutoff, rs)
         IN  IF after.seg_start > cutoff THEN after
             ELSE ForLoop(after, ps, i + 1, cutoff, rs)

\* the rows of the returned DataFrame, for the list rs get_interest_rates gave
detailed_interest_with_payments(a, due, ps, cutoff, rs) ==
    ForLoop([rows |-> <<>>, principal |-> a, seg_start |-> due],
            AugmentedPayments(ps, cutoff), 1, cutoff, rs).rows

\* df["Odsetki"].sum() if not df.empty else 0.0
RECURSIVE SumInterest(_)
SumInterest(rws) ==
    IF rws = <<>> THEN 0 ELSE Head(rws).odsetki + SumInterest(Tail(rws))

\* ------------------------------------------------------------------ inputs
Amounts == {0, 1000}
EngineAmounts == {1000}
PayAmounts == {400, 1000}
StoredRates == {70, 200, 250}

Payments == {Payment(d, a) : d \in Dates, a \in PayAmounts}
PaymentLists == UNION {[1..n -> Payments] : n \in 0..MaxPayments}
ShortPaymentLists == {<<>>} \cup {<<p>> : p \in Payments}

DateTexts == {strftime(d) : d \in EditDates} \cup {BadText}
RateTexts == {RateText(70), BadText}

\* the invoices of the session in the runs of the user interface
UiPaymentLists == {<<>>, <<Payment(1, 400)>>}

\* ---------------------------------------------------------------- initial
Init ==
    /\ interest_rates = InitialTable
    /\ pc = "idle"
    /\ fn = "none"
    /\ amount = 0
    /\ due_date = 0
    /\ payments = <<>>
    /\ stop = 0
    /\ payments_sorted = <<>>
    /\ rates = <<>>
    /\ principal = 0
    /\ seg_start = 0
    /\ k = 0
    /\ rows = <<>>
    /\ total = NoTotal
    /\ table_reads = 0
    /\ read_table = <<>>
    /\ called_with = NoArguments
    /\ arg_rates = <<>>
    /\ outcome = "none"

\* ------------------------------------------------------------ rate editor
\* The page runs top to bottom: the editor's buttons are handled before the
\* page computes anything, so an edit finds no call under way.

\* "Zapisz" of row idx: the texts are checked, then rates[idx] = (...);
\* a text that does not parse raises, and st.error leaves the table as it was
save_rate(idx, new_start, new_stop, new_rate) ==
    /\ idx \in 1..Len(interest_rates)
    /\ interest_rates' =
         IF ParsesAsDate(new_start) /\ ParsesAsDate(new_stop) /\ ParsesAsFloat(new_rate)
         THEN [interest_rates EXCEPT ![idx] = <<new_start, new_stop, float(new_rate)>>]
         ELSE interest_rates
    /\ UNCHANGED <<callVars, arg_rates, outcome>>

\* "Usun" of row idx: rates.pop(remove_idx)
remove_rate(idx) ==
    /\ idx \in 1..Len(interest_rates)
    /\ interest_rates' =
         SubSeq(interest_rates, 1, idx - 1) \o SubSeq(interest_rates, idx + 1, Len(interest_rates))
    /\ UNCHANGED <<callVars, arg_rates, outcome>>

\* "Dodaj" of the add_rate form: rates.append((...))
add_rate(new_start, new_stop, new_rate) ==
    /\ interest_rates' =
         IF ParsesAsDate(new_start) /\ ParsesAsDate(new_stop) /\ ParsesAsFloat(new_rate)
         THEN Append(interest_rates, <<new_start, new_stop, float(new_rate)>>)
         ELSE interest_rates
    /\ UNCHANGED <<callVars, arg_rates, outcome>>

SaveRate ==
    /\ pc = "idle"
    /\ \E idx \in 1..Len(interest_rates), new_start \in DateTexts, new_stop \in DateTexts,
          new_rate \in RateTexts :
           save_rate(idx, new_start, new_stop, new_rate)

RemoveRate ==
    /\ pc = "idle"
    /\ \E idx \in 1..Len(interest_rates) : remove_rate(idx)

AddRate ==
    /\ pc = "idle"
    /\ Len(interest_rates) < MaxRates
    /\ \E new_start \in DateTexts, new_stop \in DateTexts, new_rate \in RateTexts :
           add_rate(new_start, new_stop, new_rate)

\* "Zapisz" of a row with its dates left as shown and a new rate typed in
EditRate ==
    /\ pc = "idle"
    /\ \E idx \in 1..Len(interest_rates), r \in StoredRates :
           save_rate(idx, interest_rates[idx][1], interest_rates[idx][2], RateText(r))

\* ------------------------------------------------------------- the engine
\* the caller's list sorted and appended to in place:
\* payments.sort(...); payments.append(Payment(stop, 0.0))
CallersPayments_sorted_in_place(caller_ps, cutoff) == AugmentedPayments(caller_ps, cutoff)

\* the caller's list after lines 175-176: sorted() builds a new list and the
\* append goes to that list, so the caller's list is as it was
CallersPayments(caller_ps, cutoff) == caller_ps

\* detailed_interest_with_payments up to and including get_interest_rates()
Begin(f, a, due, caller_ps, ps, cutoff) ==
    /\ pc = "idle"
    /\ fn' = f
    /\ amount' = a
    /\ due_date' = due
    /\ payments' = CallersPayments(caller_ps, cutoff)
    /\ called_with' = [amount |-> a, due_date |-> due, payments |-> caller_ps]
    /\ stop' = cutoff
    /\ payments_sorted' = AugmentedPayments(ps, cutoff)
    /\ rows' = <<>>
    /\ principal' = a
    /\ seg_start' = due
    /\ total' = NoTotal
    /\ table_reads' = 1
    /\ read_table' = interest_rates
    /\ IF ReadOutcome(interest_rates) = "ok"
       THEN /\ rates' = get_interest_rates(interest_rates)
            /\ k' = 1
            /\ pc' = "loop"
       ELSE /\ rates' = <<>>
            /\ k' = 0
            /\ pc' = "raised"
    /\ UNCHANGED <<interest_rates, arg_rates, outcome>>

\* the loop reading the stored table anew on every pass
RatesInUse_live == get_interest_rates(interest_rates)

\* the loop works on the local list that line 181 filled, never on the
\* stored table
RatesInUse == rates

\* one pass of the for loop; the last one returns the DataFrame, and
\* calculate_total_interest sums it
Iterate ==
    /\ pc = "loop"
    /\ LET after == ForBody([rows |-> rows, principal |-> principal, seg_start |-> seg_start],
                            payments_sorted[k], stop, RatesInUse)
           last == after.seg_start > stop \/ k = Len(payments_sorted)
       IN  /\ rows' = after.rows
           /\ principal' = after.principal
           /\ seg_start' = after.seg_start
           /\ k' = k + 1
           /\ pc' = IF last THEN "done" ELSE "loop"
           /\ total' = IF last /\ fn = "total" THEN SumInterest(after.rows) ELSE total
    /\ UNCHANGED <<interest_rates, fn, amount, due_date, payments, stop,
                   payments_sorted, rates, table_reads, read_table, called_with,
                   arg_rates, outcome>>

\* the caller has taken the result (or the exception): the locals are gone
Finish ==
    /\ pc \in {"done", "raised"}
    /\ pc' = "idle"
    /\ fn' = "none"
    /\ amount' = 0
    /\ due_date' = 0
    /\ payments' = <<>>
    /\ stop' = 0
    /\ payments_sorted' = <<>>
    /\ rates' = <<>>
    /\ principal' = 0
    /\ seg_start' = 0
    /\ k' = 0
    /\ rows' = <<>>
    /\ total' = NoTotal
    /\ table_reads' = 0
    /\ read_table' = <<>>
    /\ called_with' = NoArguments
    /\ UNCHANGED <<interest_rates, arg_rates, outcome>>

\* if invoice.amount == 0: return 0.0
ZeroShortCircuit(a, due, ps) ==
    /\ pc = "idle"
    /\ pc' = "done"
    /\ fn' = "total"
    /\ amount' = a
    /\ due_date' = due
    /\ payments' = ps
    /\ called_with' = [amount |-> a, due_date |-> due, payments |-> ps]
    /\ total' = 0
    /\ UNCHANGED <<stop, payments_sorted, rates, principal, seg_start, k, rows,
                   table_reads, read_table>>
    /\ UNCHANGED <<interest_rates, arg_rates, outcome>>

\* calculate_total_interest without its first two lines
calculate_total_interest_always_runs(a, due, ps, today) ==
    Begin("total", a, due, ps, SortedByDate(ps), today)

calculate_total_interest(a, due, ps, today) ==
    IF a = 0
    THEN ZeroShortCircuit(a, due, ps)
    ELSE Begin("total", a, due, ps, SortedByDate(ps), today)

\* a direct call of detailed_interest_with_payments
CallDetailed ==
    /\ pc = "idle"
    /\ \E a \in EngineAmounts, due \in Dates, ps \in PaymentLists, cutoff \in Dates :
           Begin("detailed", a, due, ps, ps, cutoff)

\* a direct call of calculate_total_interest, on any day
CallTotal ==
    /\ pc = "idle"
    /\ \E a \in Amounts, due \in Dates, ps \in ShortPaymentLists, today \in Dates :
           calculate_total_interest(a, due, ps, today)

\* the invoice list of the page: calculate_total_interest(i)
ListInvoices ==
    /\ pc = "idle"
    /\ \E a \in Amounts, due \in {0}, ps \in UiPaymentLists, today \in {MaxDate} :
           calculate_total_interest(a, due, ps, today)

\* the detail pane of the page, for the selected invoice
ShowDetails ==
    /\ pc = "idle"
    /\ \E a \in Amounts, due \in {0}, ps \in UiPaymentLists, today \in {MaxDate} :
           Begin("detailed", a, due, ps, SortedByDate(ps), today)

\* ------------------------------------------------ edits by another caller
\* The stored table is shared state: here another caller's "Zapisz", "Usun"
\* or "Dodaj" may also fall between two passes of a running call's loop.
\* "Zapisz" of a row with a new rate
InterleavedSave ==
    /\ pc \in {"idle", "loop"}
    /\ \E idx \in 1..Len(interest_rates), r \in StoredRates :
           save_rate(idx, interest_rates[idx][1], interest_rates[idx][2], RateText(r))

InterleavedRemove ==
    /\ pc \in {"idle", "loop"}
    /\ \E idx \in 1..Len(interest_rates) : remove_rate(idx)

\* "Dodaj" of a row of the default schedule, typed in again
InterleavedAdd ==
    /\ pc \in {"idle", "loop"}
    /\ Len(interest_rates) < MaxRates
    /\ \E i \in 1..Len(DEFAULT_INTEREST_RATES) :
           add_rate(strftime(DEFAULT_INTEREST_RATES[i][1]),
                    strftime(DEFAULT_INTEREST_RATES[i][2]),
                    RateText(DEFAULT_INTEREST_RATES[i][3]))

\* ------------------------------------------------------------- validation
Intervals == {<<s, e, 7000>> : s \in EditDates, e \in EditDates}
RateLists == UNION {[1..n -> Intervals] : n \in 0..MaxLen}

InitValidate ==
    /\ interest_rates = InitialTable
    /\ pc = "idle"
    /\ fn = "none"
    /\ amount = 0
    /\ due_date = 0
    /\ payments = <<>>
    /\ stop = 0
    /\ payments_sorted = <<>>
    /\ rates = <<>>
    /\ principal = 0
    /\ seg_start = 0
    /\ k = 0
    /\ rows = <<>>
    /\ total = NoTotal
    /\ table_reads = 0
    /\ read_table = <<>>
    /\ called_with = NoArguments
    /\ arg_rates \in RateLists
    /\ outcome = "none"

\* validate_interest_rate_ranges(arg_rates)
Validate ==
    /\ outcome = "none"
    /\ outcome' = validate_interest_rate_ranges(arg_rates)
    /\ UNCHANGED <<interest_rates, callVars, arg_rates>>

\* ---------------------------------------------------------- specifications
\* the page: the rate editor, the invoice list and the detail pane
Next ==
    \/ SaveRate
    \/ RemoveRate
    \/ AddRate
    \/ ListInvoices
    \/ ShowDetails
    \/ Iterate
    \/ Finish

Spec == Init /\ [][Next]_vars

\* the engine called with any arguments, on the default schedule and on
\* what removals leave of it
NextEngine ==
    \/ RemoveRate
    \/ CallDetailed
    \/ Iterate
    \/ Finish

EngineSpec == Init /\ [][NextEngine]_vars

\* totals of invoices with at most one payment, the rates being edited
NextRate ==
    \/ EditRate
    \/ RemoveRate
    \/ CallTotal
    \/ Iterate
    \/ Finish

RateSpec == Init /\ [][NextRate]_vars

\* the engine and calculate_total_interest called with any arguments
NextFrame ==
    \/ RemoveRate
    \/ CallDetailed
    \/ CallTotal
    \/ Iterate
    \/ Finish

FrameSpec == Init /\ [][NextFrame]_vars

\* the detail pane computing while another caller edits the stored table
NextSnapshot ==
    \/ InterleavedSave
    \/ InterleavedRemove
    \/ InterleavedAdd
    \/ ShowDetails
    \/ Iterate
    \/ Finish

SnapshotSpec == Init /\ [][NextSnapshot]_vars

\* validate_interest_rate_ranges on any list
NextValidate == Validate

ValidateSpec == InitValidate /\ [][NextValidate]_vars

\* ================================================================= claims
\* sum of the amounts of the payments of ps dated before day d
RECURSIVE PaidBefore(_, _)
PaidBefore(ps, d) ==
    IF ps = <<>> THEN 0
    ELSE (IF Head(ps).date < d THEN Head(ps).amount ELSE 0) + PaidBefore(Tail(ps), d)

\* the orders in which the caller can hand over the payments ps
Reorderings(ps) ==
    {[i \in 1..Len(ps) |-> ps[f[i]]] :
        f \in {g \in [1..Len(ps) -> 1..Len(ps)] : \A x, y \in 1..Len(ps) : g[x] = g[y] => x = y}}

Returned == pc = "done" /\ table_reads = 1

\* the lists that hold the intervals of rs in ascending order of start
SortedOrders(rs) ==
    {s \in Reorderings(rs) : \A i \in 1..(Len(s) - 1) : s[i][1] <= s[i + 1][1]}

Reversed(s) == \E i \in 1..Len(s) : s[i][1] > s[i][2]
Overlap(s) == \E i \in 2..Len(s) : s[i][1] <= s[i - 1][2]
Gap(s) == \E i \in 2..Len(s) : s[i][1] > s[i - 1][2] + 1
Contiguous(s) ==
    /\ \A i \in 1..Len(s) : s[i][1] <= s[i][2]
    /\ \A i \in 2..Len(s) : s[i][1] = s[i - 1][2] + 1

\* the stored table, as parsed, breaks one of the three rules
StoredTableFails ==
    LET s == ParsedRates(interest_rates)
    IN  \E o \in SortedOrders(s) : Reversed(o) \/ Overlap(o) \/ Gap(o)

\* ---- C1 -----------------------------------------------------------------
\* C1: a payment reduces the principal only from the day after its date:
\* the principal of every returned line item is the invoice amount less the
\* payments dated strictly before the item's first day, floored at 0.
C1_PrincipalIsAmountLessEarlierPayments ==
    Returned =>
        \A i \in 1..Len(rows) :
            rows[i].kwota = Max(amount - PaidBefore(payments, rows[i].okres_od), 0)

\* ---- C2 -----------------------------------------------------------------
\* C2: every line item lies inside one interval of the rate list the call
\* works on, carries that interval's rate, and counts its days inclusively,
\* at least one; so the last day of an interval is charged at its rate and
\* the next day at the next interval's.
C2_ItemInsideOneRateInterval ==
    \A i \in 1..Len(rows) :
        /\ rows[i].dni = rows[i].okres_do - rows[i].okres_od + 1
        /\ rows[i].dni > 0
        /\ \E j \in 1..Len(rates) :
               /\ rates[j][1] <= rows[i].okres_od
               /\ rows[i].okres_do <= rates[j][2]
        /\ \A j \in 1..Len(rates) :
               (rates[j][1] <= rows[i].okres_od /\ rows[i].okres_od <= rates[j][2])
                   => (rows[i].okres_do <= rates[j][2] /\ rows[i].stawka = rates[j][3])

\* a segment that crosses a rate boundary has been split: two items, one
\* ending the day before the other begins, at different rates, same principal
C2_Witness ==
    /\ Returned
    /\ \E i \in 1..Len(rows), j \in 1..Len(rows) :
           /\ rows[i].okres_do + 1 = rows[j].okres_od
           /\ rows[i].stawka # rows[j].stawka
           /\ rows[i].kwota = rows[j].kwota
           /\ rows[i].okres_od < rows[i].okres_do

\* ---- C3 -----------------------------------------------------------------
\* C3: the running principal and the principal of every line item are >= 0,
\* and an item that begins after payments totalling at least the invoice
\* amount has principal 0 and interest 0.
C3_PrincipalNeverNegative ==
    /\ principal >= 0
    /\ \A i \in 1..Len(rows) :
           /\ rows[i].kwota >= 0
           /\ PaidBefore(payments, rows[i].okres_od) >= amount
                  => (rows[i].kwota = 0 /\ rows[i].odsetki = 0)

\* an overpayment, and an item for a period after it
C3_Witness ==
    /\ Returned
    /\ amount > 0
    /\ \E i \in 1..Len(rows) :
           /\ PaidBefore(payments, rows[i].okres_od) > amount
           /\ rows[i].kwota = 0

\* ---- C4 -----------------------------------------------------------------
\* C4: when a payment dated on or before the due date covers the whole
\* principal, the returned items are none or their interest sums to 0.
C4_PaidByDueDateNoInterest ==
    (Returned /\ \E i \in 1..Len(payments) :
                     payments[i].date <= due_date /\ payments[i].amount >= amount)
        => SumInterest(rows) = 0

\* ---- C5 -----------------------------------------------------------------
\* C5: calculate_total_interest of an invoice of amount 0 returns 0 without
\* reading the rate table and without producing a line item.
C5_ZeroInvoiceShortCircuit ==
    (pc # "idle" /\ fn = "total" /\ amount = 0)
        => (pc = "done" /\ total = 0 /\ table_reads = 0 /\ rows = <<>>)

\* the zero invoice has payments and the stored table does not validate
C5_Witness ==
    /\ pc = "done" /\ fn = "total" /\ amount = 0 /\ total = 0
    /\ payments # <<>>
    /\ StoredTableFails

\* ---- C6 -----------------------------------------------------------------
\* C6: validate_interest_rate_ranges raises exactly when the list, sorted
\* by start, has a reversed interval, an overlap or a gap of more than a
\* day; a list whose sorted intervals follow one another day by day passes.
C6_RaisesIffReversedOverlapOrGap ==
    outcome # "none" =>
        \A s \in SortedOrders(arg_rates) :
            /\ (outcome # "ok") <=> (Reversed(s) \/ Overlap(s) \/ Gap(s))
            /\ (outcome = "ok") <=> Contiguous(s)

\* a list that passes though the caller gave it out of order
C6_Witness ==
    /\ outcome = "ok"
    /\ Len(arg_rates) >= 3
    /\ arg_rates[1][1] > arg_rates[2][1]

\* ---- C7 -----------------------------------------------------------------
\* C7: a call that starts while the stored table fails validation ends in
\* the error, with no line item and no total, unless it is
\* calculate_total_interest of a zero invoice; and no call leaves the error.
C7_ValidationFailurePropagates ==
    [][/\ (pc = "idle" /\ pc' # "idle" /\ StoredTableFails /\ ~(fn' = "total" /\ amount' = 0))
           => (pc' = "raised" /\ rows' = <<>> /\ total' = NoTotal)
       /\ pc = "raised" => (pc' = "idle" \/ UNCHANGED <<pc, rows, total>>)]_vars

\* calculate_total_interest of a non-zero invoice has raised
C7_Witness ==
    pc = "raised" /\ fn = "total" /\ amount > 0 /\ rows = <<>> /\ total = NoTotal

\* ---- C8 -----------------------------------------------------------------
\* C8: after any sequence of add / edit / remove, the stored table passes
\* validate_interest_rate_ranges.
C8_StoredTableAlwaysValid ==
    validate_interest_rate_ranges(ParsedRates(interest_rates)) = "ok"

\* ---- C9 -----------------------------------------------------------------
\* the stored table with the rate of row idx replaced by r
WithRate(table, idx, r) == [table EXCEPT ![idx] = <<table[idx][1], table[idx][2], r>>]

\* the total of the same invoice on the same day, were the stored table this one
TotalWith(table) ==
    SumInterest(detailed_interest_with_payments(
        amount, due_date, SortedByDate(payments), stop, get_interest_rates(table)))

SameSideOf20(r1, r2) ==
    (r1 > NormalizeAbove * StoredPerPercent) <=> (r2 > NormalizeAbove * StoredPerPercent)

C10_OrderOfPaymentsIrrelevant ==
    Returned =>
        \A ps \in Reorderings(payments) :
            detailed_interest_with_payments(amount, due_date, ps, stop, rates) = rows

\* ---- C11 ----------------------------------------------------------------
\* C11: the line items are in chronological order: no item begins before
\* the item in front of it (checked on finished and unfinished results).
C11_ItemsInChronologicalOrder ==
    \A i \in 2..Len(rows) : rows[i - 1].okres_od <= rows[i].okres_od

\* the caller gave the payments latest first, and the items of the result
\* begin on three different days
C11_Witness ==
    /\ Returned
    /\ Len(payments) = 2
    /\ payments[1].date > payments[2].date
    /\ Len(rows) >= 3
    /\ \A i \in 2..Len(rows) : rows[i - 1].okres_od < rows[i].okres_od

\* ---- C12 ----------------------------------------------------------------
\* C12: whenever get_interest_rates has returned a list to a call, that
\* list (sorted by start, rates normalized) passes
\* validate_interest_rate_ranges again.
C12_ValidationIdempotent ==
    (pc \in {"loop", "done"} /\ table_reads = 1)
        => validate_interest_rate_ranges(rates) = "ok"

\* the stored table was valid but not in order of start: the returned list
\* is a rearrangement of the stored rows
C12_Witness ==
    /\ pc = "done" /\ table_reads = 1
    /\ Len(read_table) = 2
    /\ parse_date(read_table[1][1]) > parse_date(read_table[2][1])
    /\ rates # ParsedRates(read_table)
    /\ validate_interest_rate_ranges(rates) = "ok"

\* ---- C13 ----------------------------------------------------------------
\* C13: while a call runs and when it has returned or failed, the amount,
\* the due date and the payment list the caller holds are what the caller
\* handed over, the stored table is the table the call read, and the
\* zero-amount payment dated at the cutoff is in the engine's own list only.
C13_InputsNotMutated ==
    pc # "idle" =>
        /\ amount = called_with.amount
        /\ due_date = called_with.due_date
        /\ payments = called_with.payments
        /\ table_reads = 1 => interest_rates = read_table
        /\ pc \in {"loop", "done"} /\ table_reads = 1 =>
               /\ Len(payments_sorted) = Len(payments) + 1
               /\ payments_sorted[Len(payments_sorted)] = Payment(stop, 0)
               /\ \A i \in 1..Len(payments) : payments[i] # Payment(stop, 0)

\* a call returned whose engine list is not the caller's list: the caller
\* gave two payments latest first, the engine holds them sorted with the
\* terminal payment behind them
C13_Witness ==
    /\ Returned
    /\ Len(payments) = 2
    /\ payments[1].date > payments[2].date
    /\ payments = called_with.payments
    /\ payments_sorted = <<payments[2], payments[1], Payment(stop, 0)>>
    /\ rows # <<>>

\* ---- C14 ----------------------------------------------------------------
\* C14: a call reads the stored table once, before its first segment, and
\* works on the validated, sorted copy of what it read: whatever is saved,
\* removed or added in the stored table while the loop runs, the result is
\* the result for the table as it was at the read.
C14_ResultOfTheTableAsRead ==
    /\ (pc \in {"loop", "done"} /\ table_reads = 1) =>
           /\ ReadOutcome(read_table) = "ok"
           /\ rates = get_interest_rates(read_table)
    /\ (pc = "done" /\ table_reads = 1) =>
           rows = detailed_interest_with_payments(
                      amount, due_date, payments, stop, get_interest_rates(read_table))

\* the stored table was changed under a call that returned items, and the
\* table as it is now does not validate or gives other items
C14_Witness ==
    /\ pc = "done" /\ table_reads = 1
    /\ rows # <<>>
    /\ interest_rates # read_table
    /\ \/ ReadOutcome(interest_rates) # "ok"
       \/ rows # detailed_interest_with_payments(
                      amount, due_date, payments, stop, get_interest_rates(interest_rates))

\* ---- C15 ----------------------------------------------------------------
\* C15: when the end of the segment about to be processed precedes the
\* segment start, the start is clamped down to the end, and the pass adds
\* no line item with positive interest.
C15_ClampedSegmentAddsNoInterest ==
    (pc = "loop" /\ seg_start > SegEnd(payments_sorted[k].date, stop)) =>
        LET seg_end == SegEnd(payments_sorted[k].date, stop)
            start == ClampStart(seg_start, seg_end)
            added == SplitSegment(RatesInUse, SkipRates(RatesInUse, 1, start),
                                  start, seg_end, principal)
        IN  /\ start = seg_end
            /\ \A i \in 1..Len(added) : added[i].odsetki <= 0

\* ---- C16 ----------------------------------------------------------------
\* C16: every returned line item lies between the due date and the cutoff,
\* due_date <= period_from <= period_to <= cutoff, and a cutoff earlier
\* than the due date gives no item.
C16_ItemsBetweenDueDateAndCutoff ==
    Returned =>
        /\ \A i \in 1..Len(rows) :
               /\ due_date <= rows[i].okres_od
               /\ rows[i].okres_od <= rows[i].okres_do
               /\ rows[i].okres_do <= stop
        /\ stop < due_date => rows = <<>>

\* ---- C17 ----------------------------------------------------------------
\* the rate list has an interval for every day from..to
Covers(rs, from, to) ==
    \A d \in from..to : \E j \in 1..Len(rs) : rs[j][1] <= d /\ d <= rs[j][2]

RECURSIVE SumDni(_)
SumDni(rws) ==
    IF rws = <<>> THEN 0 ELSE Head(rws).dni + SumDni(Tail(rws))

OnOrBeforeCutoff(p) == p.date <= stop

\* no payment before the due date, and no two payments of one date up to
\* the cutoff
DistinctDatesFromDueDate ==
    /\ \A i \in 1..Len(payments) : payments[i].date >= due_date
    /\ \A i, j \in 1..Len(payments) :
           (i # j /\ payments[i].date <= stop) => payments[i].date # payments[j].date

\* C17: with due_date <= cutoff, a rate list covering [due_date, cutoff]
\* and payments of pairwise distinct dates from the due date on, every day
\* of [due_date, cutoff] is in exactly one line item, the 'Dni' add up to
\* cutoff - due_date + 1, and the payments dated after the cutoff make no
\* difference to the result.
C17_EveryDayInExactlyOneItem ==
    (Returned /\ due_date <= stop /\ Covers(rates, due_date, stop)
              /\ DistinctDatesFromDueDate)
        => /\ \A d \in due_date..stop :
                  Cardinality({i \in 1..Len(rows) :
                                  rows[i].okres_od <= d /\ d <= rows[i].okres_do}) = 1
           /\ \A i \in 1..Len(rows) :
                  due_date <= rows[i].okres_od /\ rows[i].okres_do <= stop
           /\ SumDni(rows) = (stop - due_date) + 1
           /\ rows = detailed_interest_with_payments(
                         amount, due_date, SelectSeq(payments, OnOrBeforeCutoff), stop, rates)

\* a payment inside the period and one after the cutoff, on a rate list of
\* two intervals: the items change principal after the first payment only
C17_Witness ==
    /\ Returned /\ due_date < stop /\ Covers(rates, due_date, stop)
    /\ DistinctDatesFromDueDate
    /\ Len(rates) = 2
    /\ Len(payments) = 2
    /\ \E i, j \in 1..2 : /\ payments[i].date < stop
                          /\ payments[j].date > stop
    /\ Len(rows) >= 2
    /\ rows[1].kwota # rows[Len(rows)].kwota

====
